---- MODULE Spec2Model ----
(***************************************************************************)
(* Model of the stock dashboard of app/page.tsx (component StockDashboard, *)
(* on Alpha Vantage data) and of the dashboard on mock data that the       *)
(* repository also holds (unnamed/part_000).                               *)
(*                                                                         *)
(* Representation of JavaScript values:                                    *)
(*   - a string is the tuple of its characters, <<"A","A","P","L">>;       *)
(*   - a number is a pair: <<"fin", n>> (n an integer), <<"nan", 0>>,      *)
(*     <<"inf", 1>> (Infinity), <<"inf", -1>> (-Infinity);                 *)
(*     <<"undef", 0>> is undefined, <<"null", 0>> is null;                 *)
(*   - an array is a sequence, an object literal a record.                 *)
(***************************************************************************)
EXTENDS Integers, Sequences, FiniteSets, TLC

VARIABLES
    stocks,          \* useState<StockData[]>([])
    loading,         \* useState(true)
    error,           \* useState<string | null>(null)
    searchTerm,      \* useState("")
    sortBy,          \* useState("symbol")
    sortOrder,       \* useState("asc")
    chartData,       \* useState<any[]>([])
    selectedSymbol,  \* useState(STOCK_SYMBOLS[0])
    inflight         \* the fetch cycles started and not yet resolved, oldest first

vars == <<stocks, loading, error, searchTerm, sortBy, sortOrder, chartData,
          selectedSymbol, inflight>>

----------------------------------------------------------------------------
(* Bounds of the model. *)

\* how many fetch cycles may be outstanding at the same time
MaxInFlight == 2

----------------------------------------------------------------------------
(* Strings. *)

AAPL == <<"A", "A", "P", "L">>
MSFT == <<"M", "S", "F", "T">>
GOOGL == <<"G", "O", "O", "G", "L">>
TSLA == <<"T", "S", "L", "A">>
AMZN == <<"A", "M", "Z", "N">>
NVDA == <<"N", "V", "D", "A">>

STOCK_SYMBOLS == <<AAPL, MSFT, GOOGL, TSLA, AMZN, NVDA>>

KnownSymbols == {STOCK_SYMBOLS[i] : i \in 1..Len(STOCK_SYMBOLS)}

COMPANY_NAMES ==
    [s \in KnownSymbols |->
        CASE s = AAPL -> <<"A","p","p","l","e"," ","I","n","c",".">>
          [] s = MSFT -> <<"M","i","c","r","o","s","o","f","t"," ",
                           "C","o","r","p","o","r","a","t","i","o","n">>
          [] s = GOOGL -> <<"A","l","p","h","a","b","e","t"," ","I","n","c",".">>
          [] s = TSLA -> <<"T","e","s","l","a",","," ","I","n","c",".">>
          [] s = AMZN -> <<"A","m","a","z","o","n",".","c","o","m"," ","I","n","c",".">>
          [] s = NVDA -> <<"N","V","I","D","I","A"," ",
                           "C","o","r","p","o","r","a","t","i","o","n">>]

\* COMPANY_NAMES[symbol] || symbol
CompanyName(symbol) ==
    IF symbol \in DOMAIN COMPANY_NAMES /\ COMPANY_NAMES[symbol] # <<>>
    THEN COMPANY_NAMES[symbol]
    ELSE symbol

Upper == <<"A","B","C","D","E","F","G","H","I","J","K","L","M",
           "N","O","P","Q","R","S","T","U","V","W","X","Y","Z">>
Lower == <<"a","b","c","d","e","f","g","h","i","j","k","l","m",
           "n","o","p","q","r","s","t","u","v","w","x","y","z">>

\* String.prototype.toLowerCase, character by character
LowerChar(ch) ==
    IF \E i \in 1..Len(Upper) : Upper[i] = ch
    THEN Lower[CHOOSE i \in 1..Len(Upper) : Upper[i] = ch]
    ELSE ch

\* a toLowerCase that leaves the text as it is
KeepCase(s) == s

\* String.prototype.toLowerCase
ToLowerCase(s) == [i \in 1..Len(s) |-> LowerChar(s[i])]

\* String.prototype.includes: needle occurs in hay as a contiguous substring
Includes(hay, needle) ==
    \E k \in 0..(Len(hay) - Len(needle)) :
        \A j \in 1..Len(needle) : hay[k + j] = needle[j]

----------------------------------------------------------------------------
(* Numbers. *)

Fin(n) == <<"fin", n>>
NaN == <<"nan", 0>>
PosInf == <<"inf", 1>>
NegInf == <<"inf", -1>>
UNDEFINED == <<"undef", 0>>
NULL == <<"null", 0>>

IsFin(x) == x[1] = "fin"
IsNaN(x) == x[1] = "nan"
IsInf(x) == x[1] = "inf"

Sign(n) == IF n > 0 THEN 1 ELSE IF n < 0 THEN -1 ELSE 0
Abs(n) == IF n < 0 THEN -n ELSE n

\* a - b on numbers
JsSub(a, b) ==
    IF IsNaN(a) \/ IsNaN(b) THEN NaN
    ELSE IF IsFin(a) /\ IsFin(b) THEN Fin(a[2] - b[2])
    ELSE IF IsInf(a) /\ IsInf(b) THEN (IF a[2] = b[2] THEN NaN ELSE a)
    ELSE IF IsInf(a) THEN a
    ELSE <<"inf", -b[2]>>

\* (a / b) * 100, a finite result kept in hundredths of a percent and
\* truncated towards zero (the two decimals the table prints)
JsPercent(a, b) ==
    IF IsNaN(a) \/ IsNaN(b) THEN NaN
    ELSE IF IsInf(a) /\ IsInf(b) THEN NaN
    ELSE IF IsInf(a) THEN <<"inf", a[2] * (IF b[2] < 0 THEN -1 ELSE 1)>>
    ELSE IF IsInf(b) THEN Fin(0)
    ELSE IF b[2] = 0
         THEN (IF a[2] = 0 THEN NaN ELSE <<"inf", Sign(a[2])>>)
         ELSE Fin(Sign(a[2]) * Sign(b[2]) * ((Abs(a[2]) * 10000) \div Abs(b[2])))

\* a > b and a < b: false as soon as one side is NaN
JsGt(a, b) ==
    /\ ~IsNaN(a) /\ ~IsNaN(b)
    /\ \/ IsFin(a) /\ IsFin(b) /\ a[2] > b[2]
       \/ IsInf(a) /\ a[2] = 1 /\ a # b
       \/ IsInf(b) /\ b[2] = -1 /\ a # b

JsLt(a, b) == JsGt(b, a)

Digits == <<"0", "1", "2", "3", "4", "5", "6", "7", "8", "9">>
IsDigit(ch) == \E i \in 1..Len(Digits) : Digits[i] = ch
DigitValue(ch) == (CHOOSE i \in 1..Len(Digits) : Digits[i] = ch) - 1

\* length of the longest prefix of s made of decimal digits
RECURSIVE DigitPrefixLen(_)
DigitPrefixLen(s) ==
    IF s = <<>> \/ ~IsDigit(Head(s)) THEN 0 ELSE 1 + DigitPrefixLen(Tail(s))

RECURSIVE DigitsValue(_)
DigitsValue(s) ==
    IF s = <<>> THEN 0
    ELSE 10 * DigitsValue(SubSeq(s, 1, Len(s) - 1)) + DigitValue(s[Len(s)])

\* the numeric prefix both parseFloat and parseInt read from a text made of
\* an optional sign, digits and other characters: NaN when no digit leads
NumericPrefix(s) ==
    LET neg == s # <<>> /\ Head(s) = "-"
        body == IF neg THEN Tail(s) ELSE s
        n == DigitPrefixLen(body)
    IN  IF n = 0 THEN NaN
        ELSE Fin((IF neg THEN -1 ELSE 1) * DigitsValue(SubSeq(body, 1, n)))

\* parseFloat(x): x is converted to a string first, undefined reads "undefined"
ParseFloat(s) == NumericPrefix(s)

\* parseInt(x)
ParseInt(s) == NumericPrefix(s)

\* what a missing field reads as once converted to a string
UndefinedText == <<"u","n","d","e","f","i","n","e","d">>

----------------------------------------------------------------------------
(* Decoded JSON payloads of TIME_SERIES_INTRADAY.                            *)
(* A payload is [isNull, meta, hasSeries, series]: isNull is the JSON value *)
(* null; meta and hasSeries say whether data["Meta Data"] and               *)
(* data["Time Series (5min)"] are truthy; series is the series object as the *)
(* sequence of its entries in key order (Object.keys order), each entry     *)
(* [time, isNull, close, volume] with isNull for a null entry value and     *)
(* close, volume the texts of "4. close" and "5. volume".                   *)

Entry(time, close, volume) ==
    [time |-> time, isNull |-> FALSE, close |-> close, volume |-> volume]

NullEntry(time) ==
    [time |-> time, isNull |-> TRUE, close |-> UndefinedText, volume |-> UndefinedText]

SeriesPayload(series) ==
    [isNull |-> FALSE, meta |-> TRUE, hasSeries |-> TRUE, series |-> series]

\* the body the API sends once the rate limit is hit: {"Note": "..."}
RateLimitNote == [isNull |-> FALSE, meta |-> FALSE, hasSeries |-> FALSE, series |-> <<>>]

\* the body "null"
JsonNull == [isNull |-> TRUE, meta |-> FALSE, hasSeries |-> FALSE, series |-> <<>>]

ParseNull == [tag |-> "null"]
ParseThrow == [tag |-> "throw"]

\* parseStockData(symbol, data): a record, null, or a TypeError thrown by
\* reading a property of null
ParseStockData(symbol, data) ==
    IF data.isNull THEN ParseThrow
    ELSE IF ~data.meta \/ ~data.hasSeries THEN ParseNull
    ELSE LET timeSeries == data.series
             hasLast == Len(timeSeries) >= 1 /\ ~timeSeries[1].isNull
             hasPrev == Len(timeSeries) >= 2 /\ ~timeSeries[2].isNull
         IN  IF ~hasLast \/ ~hasPrev THEN ParseNull
             ELSE LET last == timeSeries[1]
                      prev == timeSeries[2]
                      price == ParseFloat(last.close)
                      prevPrice == ParseFloat(prev.close)
                      change == JsSub(price, prevPrice)
                      changePercent == JsPercent(change, prevPrice)
                      volume == ParseInt(last.volume)
                  IN  [tag |-> "ok",
                       rec |-> [symbol |-> symbol,
                                name |-> CompanyName(symbol),
                                price |-> price,
                                change |-> change,
                                changePercent |-> changePercent,
                                volume |-> volume,
                                marketCap |-> UNDEFINED]]

\* a reverse() that leaves the order as it is
SameOrder(s) == s

\* Array.prototype.reverse
Reverse(s) == [i \in 1..Len(s) |-> s[Len(s) + 1 - i]]

\* Object.entries(series).map(([time, values]) => ({time, price:
\* parseFloat(values["4. close"])})).reverse(): a TypeError when an entry
\* value is null
ChartArr(series) ==
    IF \E i \in 1..Len(series) : series[i].isNull
    THEN [tag |-> "throw"]
    ELSE [tag |-> "ok",
          arr |-> Reverse([i \in 1..Len(series) |->
                              [time |-> series[i].time,
                               price |-> ParseFloat(series[i].close)]])]

----------------------------------------------------------------------------
(* One upstream answer to fetchStock: the fetch rejects, or resolves with a  *)
(* status (ok or not) and a decoded body.                                    *)

NetworkError == [rejects |-> TRUE, ok |-> FALSE, data |-> JsonNull]
HttpError == [rejects |-> FALSE, ok |-> FALSE, data |-> JsonNull]
Json(data) == [rejects |-> FALSE, ok |-> TRUE, data |-> data]

\* fetchStock(symbol) against that answer: the data, or an exception
FetchStock(symbol, response) ==
    IF response.rejects THEN [tag |-> "throw"]
    ELSE IF ~response.ok THEN [tag |-> "throw"]
    ELSE [tag |-> "ok", data |-> response.data]

\* the callback mapped over STOCK_SYMBOLS: { symbol, data }, or null when
\* fetchStock threw
Attempt(symbol, response) ==
    LET got == FetchStock(symbol, response)
    IN  IF got.tag = "throw" THEN [tag |-> "null"]
        ELSE [tag |-> "ok", symbol |-> symbol, data |-> got.data]

\* "Failed to fetch stock data. Please try again."
ERROR_MESSAGE ==
    <<"F","a","i","l","e","d"," ","t","o"," ","f","e","t","c","h"," ","s",
      "t","o","c","k"," ","d","a","t","a","."," ","P","l","e","a","s","e",
      " ","t","r","y"," ","a","g","a","i","n",".">>

\* the rest of the async body once Promise.all has resolved with `results`,
\* for a cycle that captured `selected` as selectedSymbol: what it leaves in
\* stocks, chartData and error (the try, the catch; finally is in the action)
Continuation(results, selected, oldStocks, oldError) ==
    LET validResults == SelectSeq(results, LAMBDA r : r.tag # "null")
        parsed == [i \in 1..Len(validResults) |->
                      ParseStockData(validResults[i].symbol, validResults[i].data)]
        parseThrows == \E i \in 1..Len(parsed) : parsed[i].tag = "throw"
        kept == SelectSeq(parsed, LAMBDA p : p.tag = "ok")
        newStocks == [i \in 1..Len(kept) |-> kept[i].rec]
        found == {i \in 1..Len(validResults) : validResults[i].symbol = selected}
        sel == validResults[CHOOSE i \in found : \A j \in found : i <= j]
        chart == IF found # {} /\ sel.data.hasSeries
                 THEN ChartArr(sel.data.series)
                 ELSE [tag |-> "ok", arr |-> <<>>]
    IN  IF parseThrows
        THEN [stocks |-> oldStocks, chartData |-> <<>>, error |-> ERROR_MESSAGE,
              setStocks |-> FALSE]
        ELSE IF chart.tag = "throw"
        THEN [stocks |-> newStocks, chartData |-> <<>>, error |-> ERROR_MESSAGE,
              setStocks |-> TRUE]
        ELSE [stocks |-> newStocks, chartData |-> chart.arr, error |-> oldError,
              setStocks |-> TRUE]

----------------------------------------------------------------------------
(* The derived view state, recomputed on every render. *)

\* stocks.filter(symbol or name includes the lower-cased search term)
FilterStocks(list, term) ==
    SelectSeq(list, LAMBDA stock :
        \/ Includes(ToLowerCase(stock.symbol), ToLowerCase(term))
        \/ Includes(ToLowerCase(stock.name), ToLowerCase(term)))

filteredStocks == FilterStocks(stocks, searchTerm)

\* rank of a character in the collation of localeCompare: letters in
\* alphabetical order, a lower-case letter just before its upper-case one,
\* any other character first
CharRank(ch) ==
    IF \E i \in 1..Len(Upper) : Upper[i] = ch
    THEN 2 * (CHOOSE i \in 1..Len(Upper) : Upper[i] = ch) + 1
    ELSE IF \E i \in 1..Len(Lower) : Lower[i] = ch
    THEN 2 * (CHOOSE i \in 1..Len(Lower) : Lower[i] = ch)
    ELSE 0

\* a.localeCompare(b): -1, 0 or 1
RECURSIVE LocaleCompare(_, _)
LocaleCompare(a, b) ==
    IF a = <<>> /\ b = <<>> THEN 0
    ELSE IF a = <<>> THEN -1
    ELSE IF b = <<>> THEN 1
    ELSE IF CharRank(Head(a)) < CharRank(Head(b)) THEN -1
    ELSE IF CharRank(Head(a)) > CharRank(Head(b)) THEN 1
    ELSE LocaleCompare(Tail(a), Tail(b))

\* x * multiplier, multiplier being 1 or -1
JsTimesSign(x, multiplier) ==
    IF IsNaN(x) THEN NaN ELSE <<x[1], x[2] * multiplier>>

\* the comparator given to sort: a number, possibly NaN
CompareStocks(a, b, by, order) ==
    LET multiplier == IF order = "asc" THEN 1 ELSE -1
    IN  IF by = "symbol"
        THEN Fin(LocaleCompare(a.symbol, b.symbol) * multiplier)
        ELSE IF a[by] \in {UNDEFINED, NULL} \/ b[by] \in {UNDEFINED, NULL}
        THEN Fin(0)
        ELSE JsTimesSign(JsSub(a[by], b[by]), multiplier)

\* an insertion that also goes before the elements it compares equal to
RECURSIVE InsertBeforeEqual(_, _, _, _)
InsertBeforeEqual(sorted, x, by, order) ==
    IF sorted = <<>> THEN <<x>>
    ELSE LET lastOne == sorted[Len(sorted)]
         IN  IF ~JsGt(CompareStocks(x, lastOne, by, order), Fin(0))
             THEN Append(InsertBeforeEqual(SubSeq(sorted, 1, Len(sorted) - 1),
                                           x, by, order), lastOne)
             ELSE Append(sorted, x)

\* Array.prototype.sort, a stable sort: an element goes before the elements
\* of the sorted prefix it compares less than (comparator result < 0)
RECURSIVE InsertSorted(_, _, _, _)
InsertSorted(sorted, x, by, order) ==
    IF sorted = <<>> THEN <<x>>
    ELSE LET lastOne == sorted[Len(sorted)]
         IN  IF JsLt(CompareStocks(x, lastOne, by, order), Fin(0))
             THEN Append(InsertSorted(SubSeq(sorted, 1, Len(sorted) - 1),
                                      x, by, order), lastOne)
             ELSE Append(sorted, x)

RECURSIVE SortStocks(_, _, _)
SortStocks(list, by, order) ==
    IF list = <<>> THEN <<>>
    ELSE InsertSorted(SortStocks(SubSeq(list, 1, Len(list) - 1), by, order),
                      list[Len(list)], by, order)

sortedStocks == SortStocks(filteredStocks, sortBy, sortOrder)

\* x || 0 on a market cap: undefined, NaN and 0 give 0
OrZero(x) == IF IsFin(x) THEN x[2] ELSE 0

\* stocks.reduce((sum, stock) => sum + (stock?.marketCap || 0), 0)
RECURSIVE SumMarketCap(_)
SumMarketCap(list) ==
    IF list = <<>> THEN 0
    ELSE SumMarketCap(SubSeq(list, 1, Len(list) - 1))
         + OrZero(list[Len(list)].marketCap)

totalMarketCap == SumMarketCap(stocks)

\* stocks.some((stock) => stock?.marketCap && stock.marketCap > 0)
HasMarketCap(list) ==
    \E i \in 1..Len(list) :
        /\ IsFin(list[i].marketCap) \/ IsInf(list[i].marketCap)
        /\ JsGt(list[i].marketCap, Fin(0))

hasMarketCap == HasMarketCap(stocks)

\* stocks.filter((stock) => stock?.change > 0).length
Gainers(list) == Cardinality({i \in 1..Len(list) : JsGt(list[i].change, Fin(0))})

\* stocks.filter((stock) => stock?.change < 0).length
Losers(list) == Cardinality({i \in 1..Len(list) : JsLt(list[i].change, Fin(0))})

\* a gainer count of the rows on display
gainersOfDisplayed == Gainers(filteredStocks)

gainers == Gainers(stocks)
losers == Losers(stocks)

----------------------------------------------------------------------------
(* What the page shows. Market caps are counted in millions of dollars. *)

RECURSIVE IntToChars(_)
IntToChars(n) ==
    IF n < 10 THEN <<Digits[n + 1]>>
    ELSE Append(IntToChars(n \div 10), Digits[(n % 10) + 1])

\* (n / d).toFixed(2) for n >= 0
Fixed2(n, d) ==
    LET h == (n * 100 + d \div 2) \div d
    IN  IntToChars(h \div 100) \o <<".">>
        \o <<Digits[((h \div 10) % 10) + 1], Digits[(h % 10) + 1]>>

\* formatNumber(num), num a whole number of millions of dollars: the branch
\* for thousands is taken by no such number, and 0 is formatted by the last
FormatNumber(num) ==
    IF num >= 1000000 THEN <<"$">> \o Fixed2(num, 1000000) \o <<"T">>
    ELSE IF num >= 1000 THEN <<"$">> \o Fixed2(num, 1000) \o <<"B">>
    ELSE IF num >= 1 THEN <<"$">> \o Fixed2(num, 1) \o <<"M">>
    ELSE <<"$">> \o Fixed2(num * 1000000, 1)

NotAvailable == <<"N", "/", "A">>

\* the figure of the "Total Market Cap" card
MarketCapCard(has, total) == IF has THEN FormatNumber(total) ELSE NotAvailable

marketCapCard == MarketCapCard(hasMarketCap, totalMarketCap)

\* the table body: placeholder rows while loading, else one row per stock
Skeleton == <<"skeleton">>
TableBody(isLoading, rows) == IF isLoading THEN Skeleton ELSE rows
tableBody == TableBody(loading, sortedStocks)

\* {error && <Alert>}
errorBanner == error # NULL

----------------------------------------------------------------------------
(* The upstream answers the model draws from: for one fetch cycle, one      *)
(* answer per entry of STOCK_SYMBOLS.                                        *)

Txt(n) == IntToChars(n)

\* a well-formed series, newest entry first, for the i-th symbol
GoodSeries(i) ==
    CASE i = 1 -> <<Entry(2, Txt(12), Txt(300)), Entry(1, Txt(10), Txt(250))>>
      [] i = 2 -> <<Entry(2, Txt(10), Txt(100)), Entry(1, Txt(12), Txt(150))>>
      [] i = 3 -> <<Entry(2, Txt(10), Txt(200)), Entry(1, Txt(10), Txt(200))>>
      [] i = 4 -> <<Entry(2, Txt(20), Txt(100)), Entry(1, Txt(10), Txt(100))>>
      [] i = 5 -> <<Entry(2, Txt(5), Txt(50)), Entry(1, Txt(10), Txt(60))>>
      [] OTHER -> <<Entry(2, Txt(30), Txt(400)), Entry(1, Txt(10), Txt(300))>>

Good(i) == Json(SeriesPayload(GoodSeries(i)))

\* a series whose newest entry is null
NullValues == Json(SeriesPayload(<<NullEntry(2), Entry(1, Txt(10), Txt(250))>>))

AllGood == [i \in 1..Len(STOCK_SYMBOLS) |-> Good(i)]

\* every fetch fails: some reject, some answer a non-success status
AllFail ==
    [i \in 1..Len(STOCK_SYMBOLS) |-> IF i % 2 = 1 THEN NetworkError ELSE HttpError]

\* every fetch answers the rate-limit note
AllNotes == [i \in 1..Len(STOCK_SYMBOLS) |-> Json(RateLimitNote)]

ButFor(i, response) == [AllGood EXCEPT ![i] = response]

ResponseArrays ==
    {AllGood, AllFail, AllNotes,
     ButFor(2, HttpError),           \* MSFT fails, the others succeed
     ButFor(4, NetworkError),        \* TSLA fails, the others succeed
     ButFor(6, Json(RateLimitNote)), \* the sixth request is over the limit
     ButFor(2, Json(JsonNull)),      \* MSFT answers the body null
     ButFor(1, NullValues)}          \* AAPL answers a series with a null entry

\* the answers drawn while the user sorts and filters
ViewResponseArrays == {AllGood, AllFail, ButFor(2, HttpError)}

\* what Promise.all resolves with for these answers, in STOCK_SYMBOLS order
ResultsOf(responses) ==
    [i \in 1..Len(STOCK_SYMBOLS) |-> Attempt(STOCK_SYMBOLS[i], responses[i])]

SearchTerms == {<<>>, <<"a","p","p","l","e">>}
SortColumns == {"symbol", "price", "change", "volume"}

\* the entries of the chart dropdown the user picks from
Selectable == {AAPL, MSFT}

----------------------------------------------------------------------------
(* The fetch cycles. A cycle is [selected, pending, initial, resolved]:      *)
(* selected is the selectedSymbol its closure captured, pending the number  *)
(* of its per-symbol fetches not yet settled, initial whether it is the     *)
(* load started on mount, resolved whether its Promise.all has resolved     *)
(* and the rest of the async body has run.                                  *)

\* STOCK_SYMBOLS.map(async (symbol) => fetchStock(symbol)): one request each
RequestsIssued == Len(STOCK_SYMBOLS)

NewCycle(selected, initial) ==
    [selected |-> selected, pending |-> RequestsIssued, initial |-> initial,
     resolved |-> FALSE]

\* a join that does not wait for the last promise
JoinedEarly(pendingLeft) == pendingLeft <= 1

\* Promise.all resolves once none of its promises is pending
Joined(pendingLeft) == pendingLeft = 0

RemoveAt(seq, c) == [i \in 1..(Len(seq) - 1) |-> IF i < c THEN seq[i] ELSE seq[i + 1]]

\* the cycle list after one more fetch of cycle c has settled
AfterSettle(c, nowResolved) ==
    IF inflight[c].pending = 1 THEN RemoveAt(inflight, c)
    ELSE [inflight EXCEPT ![c].pending = @ - 1,
                          ![c].resolved = @ \/ nowResolved]

\* the state after mount: the useState initial values, and the effect has
\* started the first cycle
Init ==
    /\ stocks = <<>>
    /\ loading = TRUE
    /\ error = NULL
    /\ searchTerm = <<>>
    /\ sortBy = "symbol"
    /\ sortOrder = "asc"
    /\ chartData = <<>>
    /\ selectedSymbol = STOCK_SYMBOLS[1]
    /\ inflight = <<NewCycle(STOCK_SYMBOLS[1], TRUE)>>

\* the Refresh button
HandleRefresh ==
    /\ Len(inflight) < MaxInFlight
    /\ loading' = TRUE
    /\ error' = NULL
    /\ inflight' = Append(inflight, NewCycle(selectedSymbol, FALSE))
    /\ UNCHANGED <<stocks, searchTerm, sortBy, sortOrder, chartData, selectedSymbol>>

\* a dropdown that only re-ran the chart step: no effect on [selectedSymbol]
SelectSymbolChartOnly(symbol) ==
    /\ symbol # selectedSymbol
    /\ selectedSymbol' = symbol
    /\ UNCHANGED <<stocks, loading, error, searchTerm, sortBy, sortOrder,
                   chartData, inflight>>

\* the chart dropdown: setSelectedSymbol, then the effect on [selectedSymbol]
\* runs fetchAllStocks
SelectSymbol(symbol) ==
    /\ symbol # selectedSymbol
    /\ Len(inflight) < MaxInFlight
    /\ selectedSymbol' = symbol
    /\ loading' = TRUE
    /\ error' = NULL
    /\ inflight' = Append(inflight, NewCycle(symbol, FALSE))
    /\ UNCHANGED <<stocks, searchTerm, sortBy, sortOrder, chartData>>

\* one per-symbol fetch of cycle c settles (fetchStock returns or throws into
\* the inner catch) and Promise.all stays as it is
FetchSettles(c) ==
    /\ inflight[c].resolved \/ ~Joined(inflight[c].pending - 1)
    /\ inflight' = AfterSettle(c, FALSE)
    /\ UNCHANGED <<stocks, loading, error, searchTerm, sortBy, sortOrder,
                   chartData, selectedSymbol>>

\* one per-symbol fetch of cycle c settles, Promise.all resolves with
\* `results` and the rest of the async body runs: try or catch, then finally
Resolve(c, results) ==
    /\ ~inflight[c].resolved
    /\ Joined(inflight[c].pending - 1)
    /\ LET out == Continuation(results, inflight[c].selected, stocks, error)
       IN  /\ stocks' = out.stocks
           /\ chartData' = out.chartData
           /\ error' = out.error
    /\ loading' = FALSE
    /\ inflight' = AfterSettle(c, TRUE)
    /\ UNCHANGED <<searchTerm, sortBy, sortOrder, selectedSymbol>>

PromiseAllResolves(c) ==
    \E responses \in ResponseArrays : Resolve(c, ResultsOf(responses))

ViewPromiseAllResolves(c) ==
    \E responses \in ViewResponseArrays : Resolve(c, ResultsOf(responses))

\* a header click that kept the direction when the column changes
HandleSortKeepsOrder(column) ==
    /\ IF sortBy = column
       THEN /\ sortOrder' = (IF sortOrder = "asc" THEN "desc" ELSE "asc")
            /\ sortBy' = sortBy
       ELSE /\ sortBy' = column
            /\ sortOrder' = sortOrder
    /\ UNCHANGED <<stocks, loading, error, searchTerm, chartData, selectedSymbol,
                   inflight>>

\* a click on a column header
HandleSort(column) ==
    /\ IF sortBy = column
       THEN /\ sortOrder' = (IF sortOrder = "asc" THEN "desc" ELSE "asc")
            /\ sortBy' = sortBy
       ELSE /\ sortBy' = column
            /\ sortOrder' = "asc"
    /\ UNCHANGED <<stocks, loading, error, searchTerm, chartData, selectedSymbol,
                   inflight>>

\* typing in the search box
SetSearchTerm(term) ==
    /\ term # searchTerm
    /\ searchTerm' = term
    /\ UNCHANGED <<stocks, loading, error, sortBy, sortOrder, chartData,
                   selectedSymbol, inflight>>

\* the fetch cycles alone: the user refreshes and picks chart symbols
Next ==
    \/ HandleRefresh
    \/ \E symbol \in Selectable : SelectSymbol(symbol)
    \/ \E c \in 1..Len(inflight) : FetchSettles(c)
    \/ \E c \in 1..Len(inflight) : PromiseAllResolves(c)

Spec == Init /\ [][Next]_vars

\* the continuation of a Promise.all whose six fetches have settled: all by
\* failure, all by success, or by success with one body that makes the
\* continuation throw
SettledPromiseAllResolves(c) ==
    \/ Resolve(c, ResultsOf(AllFail))
    \/ Resolve(c, ResultsOf(AllGood))
    \/ Resolve(c, ResultsOf(ButFor(2, Json(JsonNull))))

NextFair ==
    \/ HandleRefresh
    \/ \E symbol \in Selectable : SelectSymbol(symbol)
    \/ \E c \in 1..Len(inflight) : FetchSettles(c)
    \/ \E c \in 1..Len(inflight) : SettledPromiseAllResolves(c)

\* the fetch cycles when every fetch that is pending settles in the end, by
\* success or by failure, and the continuation of a resolved Promise.all is
\* run
SpecFair ==
    /\ Init /\ [][NextFair]_vars
    /\ \A k \in 1..MaxInFlight :
          /\ WF_vars(k <= Len(inflight) /\ FetchSettles(k))
          /\ WF_vars(k <= Len(inflight) /\ SettledPromiseAllResolves(k))

\* the fetches of cycle c settle one after the other until a single one is
\* pending: FetchSettles(c) as often as it can be taken, in one step
FetchesSettle(c) ==
    /\ inflight[c].pending > 1
    /\ inflight' = [inflight EXCEPT ![c].pending = 1]
    /\ UNCHANGED <<stocks, loading, error, searchTerm, sortBy, sortOrder,
                   chartData, selectedSymbol>>

\* the whole page: the user also sorts and filters
NextView ==
    \/ HandleRefresh
    \/ \E symbol \in Selectable : SelectSymbol(symbol)
    \/ \E c \in 1..Len(inflight) : FetchesSettle(c)
    \/ \E c \in 1..Len(inflight) : ViewPromiseAllResolves(c)
    \/ \E column \in SortColumns : HandleSort(column)
    \/ \E term \in SearchTerms : SetSearchTerm(term)

SpecView == Init /\ [][NextView]_vars

----------------------------------------------------------------------------
(* The initial load over payloads with missing, unparsable and zero fields, *)
(* and the view of what it loads.                                           *)

\* the series of the i-th symbol with other texts in its fields
WithLastClose(i, text) == [GoodSeries(i) EXCEPT ![1].close = text]
WithPrevClose(i, text) == [GoodSeries(i) EXCEPT ![2].close = text]
WithLastVolume(i, text) == [GoodSeries(i) EXCEPT ![1].volume = text]

\* a series of three entries, newest first
ThreePoints ==
    <<Entry(3, Txt(14), Txt(300)), Entry(2, Txt(12), Txt(250)),
      Entry(1, Txt(10), Txt(200))>>

\* the series the upstream may answer for the i-th symbol
LoadSeries(i) ==
    {GoodSeries(i),
     WithLastClose(i, UndefinedText),    \* no "4. close" in the latest entry
     WithPrevClose(i, UndefinedText),    \* no "4. close" in the one before
     WithPrevClose(i, Txt(0)),           \* previous close "0"
     [WithLastClose(i, Txt(0)) EXCEPT ![2].close = Txt(0)], \* both closes "0"
     WithLastVolume(i, UndefinedText)}   \* no "5. volume"

LoadResponses(i) ==
    {Json(SeriesPayload(series)) : series \in LoadSeries(i)} \cup {HttpError}

\* the answers to the initial load: AAPL and GOOGL vary, the others are well
\* formed
LoadResponseArrays ==
    {[AllGood EXCEPT ![1] = first, ![3] = third] :
        first \in LoadResponses(1) \cup {Json(SeriesPayload(ThreePoints))},
        third \in LoadResponses(3)}

LoadPromiseAllResolves(c) ==
    \E responses \in LoadResponseArrays : Resolve(c, ResultsOf(responses))

LoadSearchTerms ==
    {<<>>, <<"a","p","p","l","e">>, <<" ","a","p","p","l","e">>, <<"T">>}

NextLoad ==
    \/ \E c \in 1..Len(inflight) : FetchesSettle(c)
    \/ \E c \in 1..Len(inflight) : LoadPromiseAllResolves(c)
    \/ \E column \in SortColumns : HandleSort(column)
    \/ \E term \in LoadSearchTerms : SetSearchTerm(term)

SpecLoad == Init /\ [][NextLoad]_vars

----------------------------------------------------------------------------
(* The dashboard on mock data: the same view over stocks, searchTerm,       *)
(* sortBy and sortOrder, no upstream and no chart. Its prices and changes   *)
(* are counted in cents, its percentages in hundredths of a percent, its    *)
(* market caps in millions of dollars. loading is true exactly while the    *)
(* timer of the simulated call is pending.                                  *)

MockStock(symbol, price, change, changePercent, volume, marketCap) ==
    [symbol |-> symbol, name |-> COMPANY_NAMES[symbol], price |-> Fin(price),
     change |-> Fin(change), changePercent |-> Fin(changePercent),
     volume |-> Fin(volume), marketCap |-> Fin(marketCap)]

generateMockData ==
    <<MockStock(AAPL, 17543, 215, 124, 45234567, 2800000),
      MockStock(GOOGL, 13821, -187, -133, 23456789, 1750000),
      MockStock(MSFT, 37885, 432, 115, 34567890, 2900000),
      MockStock(TSLA, 24850, -875, -340, 67890123, 790000),
      MockStock(AMZN, 14586, 123, 85, 28901234, 1500000),
      MockStock(NVDA, 87528, 1567, 182, 45678901, 2150000)>>

\* Math.random(), in tenths
RandomTenths == <<0, 5, 9>>

\* the values Math.random() returns during one refresh, three per stock
RandomDraws ==
    {[k \in 1..(3 * Len(generateMockData)) |-> r] :
        r \in {RandomTenths[j] : j \in 1..Len(RandomTenths)}}
    \cup {[k \in 1..(3 * Len(generateMockData)) |-> RandomTenths[(k % 3) + 1]]}

\* generateMockData().map(stock => ({ ...stock, price: ..., change: ...,
\* changePercent: ... })) with the draws `random`
Randomized(random) ==
    [i \in 1..Len(generateMockData) |->
        [generateMockData[i] EXCEPT
            !.price = Fin(@[2] + (random[3 * i - 2] - 5) * 100),
            !.change = Fin((random[3 * i - 1] - 5) * 200),
            !.changePercent = Fin((random[3 * i] - 5) * 50)]]

\* the figure of the "Total Market Cap" card of this page
mockMarketCapCard == FormatNumber(totalMarketCap)

InitMock ==
    /\ stocks = <<>>
    /\ loading = TRUE
    /\ error = NULL
    /\ searchTerm = <<>>
    /\ sortBy = "symbol"
    /\ sortOrder = "asc"
    /\ chartData = <<>>
    /\ selectedSymbol = STOCK_SYMBOLS[1]
    /\ inflight = <<>>

\* the timer of the simulated call fires: setStocks(generateMockData()),
\* then finally
MockLoaded ==
    /\ loading
    /\ stocks' = generateMockData
    /\ loading' = FALSE
    /\ UNCHANGED <<error, searchTerm, sortBy, sortOrder, chartData,
                   selectedSymbol, inflight>>

\* the Refresh button of this page
MockHandleRefresh(random) ==
    /\ stocks' = Randomized(random)
    /\ UNCHANGED <<loading, error, searchTerm, sortBy, sortOrder, chartData,
                   selectedSymbol, inflight>>

NextMock ==
    \/ MockLoaded
    \/ \E random \in RandomDraws : MockHandleRefresh(random)
    \/ \E column \in SortColumns : HandleSort(column)
    \/ \E term \in SearchTerms : SetSearchTerm(term)

SpecMock == InitMock /\ [][NextMock]_vars

----------------------------------------------------------------------------
(* Properties of the fetch cycles.                                          *)

Cycles == 1..Len(inflight)
Symbols == 1..Len(STOCK_SYMBOLS)

\* the symbols whose fetch threw: a rejected request or a non-success status
FetchFailed(responses) ==
    {i \in Symbols : FetchStock(STOCK_SYMBOLS[i], responses[i]).tag = "throw"}

\* the symbols whose attempt gave no record: the fetch threw, or the payload
\* is one parseStockData makes no record of
AttemptFailed(responses) ==
    {i \in Symbols :
        \/ i \in FetchFailed(responses)
        \/ ParseStockData(STOCK_SYMBOLS[i], responses[i].data).tag # "ok"}

SymbolsOf(list) == [i \in 1..Len(list) |-> list[i].symbol]

\* STOCK_SYMBOLS without the symbols in F, in order
SymbolsBut(F) ==
    LET keep == SelectSeq([i \in Symbols |-> i], LAMBDA i : i \notin F)
    IN  [k \in 1..Len(keep) |-> STOCK_SYMBOLS[keep[k]]]

\* C1: when every per-symbol fetch of a cycle fails, the cycle ends with an
\* empty record batch and with the error state set.
C1_TotalFailureSetsError ==
    [][\A c \in Cycles : \A responses \in ResponseArrays :
          (Resolve(c, ResultsOf(responses)) /\ FetchFailed(responses) = Symbols)
              => (stocks' = <<>> /\ error' # NULL)]_vars

\* C2: when the attempts of the symbols in F fail (the fetch throws, or the
\* payload gives no record), the cycle writes a batch with exactly one record
\* for every symbol outside F, and sets no error unless F is every symbol.
C2_PerSymbolIsolation ==
    [][\A c \in Cycles : \A responses \in ResponseArrays :
          Resolve(c, ResultsOf(responses))
              => LET F == AttemptFailed(responses)
                 IN  /\ SymbolsOf(stocks') = SymbolsBut(F)
                     /\ F # Symbols => error' = NULL]_vars

\* C3: a cycle writes the record batch exactly once, and it does so in the
\* step in which the last of its fetches settles; while a fetch of the cycle
\* is pending the cycle leaves the batch as it is.
C3_WrittenOnceAtBarrier ==
    [][/\ \A c \in Cycles : \A responses \in ResponseArrays :
             Resolve(c, ResultsOf(responses))
                 => /\ inflight[c].pending = 1
                    /\ Continuation(ResultsOf(responses), inflight[c].selected,
                                    stocks, error).setStocks
       /\ \A c \in Cycles : FetchSettles(c) => stocks' = stocks]_vars

\* C4: the loading flag is true, and the table body shows the skeleton,
\* whenever a fetch cycle is outstanding.
C4_LoadingWhileOutstanding ==
    (\E c \in Cycles : ~inflight[c].resolved)
        => (loading /\ tableBody = Skeleton)

\* C5: when every fetch of a cycle other than the initial load fails, the
\* batch loaded before stays and the error state is set.
C5_FailedRefreshKeepsBatch ==
    [][\A c \in Cycles : \A responses \in ResponseArrays :
          (/\ Resolve(c, ResultsOf(responses))
           /\ FetchFailed(responses) = Symbols
           /\ ~inflight[c].initial
           /\ stocks # <<>>)
              => (stocks' = stocks /\ error' # NULL)]_vars

FREE_TIER_LIMIT == 5

\* C10: no fetch cycle issues more than 5 upstream requests.
C10_AtMostFiveRequests ==
    \A c \in Cycles : inflight[c].pending <= FREE_TIER_LIMIT

----------------------------------------------------------------------------
(* Properties of the view.                                                  *)

SortChanged == <<sortBy, sortOrder>>' # <<sortBy, sortOrder>>

\* C7: (sortBy, sortOrder) starts as (symbol, asc); a click on the active
\* column keeps the column and flips the direction; a click on another
\* column makes it active, ascending; and a step that changes the pair is
\* such a click and nothing else.
C7_SortToggle ==
    /\ sortBy = "symbol" /\ sortOrder = "asc"
    /\ [][/\ \A column \in SortColumns :
                HandleSort(column)
                    => IF column = sortBy
                       THEN sortBy' = sortBy /\ sortOrder' # sortOrder
                       ELSE sortBy' = column /\ sortOrder' = "asc"
          /\ SortChanged
                => /\ \E column \in SortColumns : HandleSort(column)
                   /\ sortOrder' \in {"asc", "desc"}
                   /\ UNCHANGED <<stocks, loading, error, searchTerm,
                                  chartData, selectedSymbol, inflight>>]_vars

\* the price column, clicked twice, on a loaded table
C7_Witness ==
    /\ sortBy = "price"
    /\ sortOrder = "desc"
    /\ stocks # <<>>

summary == <<totalMarketCap, hasMarketCap, gainers, losers>>

\* C8: the summary changes only when the record batch changes, and a change
\* of the search term, the sort column or the sort direction changes neither.
C8_SummaryOfBatchOnly ==
    [][/\ stocks' = stocks => summary' = summary
       /\ (searchTerm' # searchTerm \/ SortChanged)
             => (stocks' = stocks /\ summary' = summary)]_vars

\* six records loaded, one of them displayed, the summary still of all six
C8_Witness ==
    /\ Len(stocks) = Len(STOCK_SYMBOLS)
    /\ searchTerm # <<>>
    /\ Len(sortedStocks) = 1
    /\ gainers = 3
    /\ losers = 2

ZeroDollars == <<"$", "0", ".", "0", "0">>

\* C9: whenever no record of the batch has a market cap above zero, the
\* empty batch before the first load included, the "Total Market Cap" card
\* reads "N/A" and not "$0.00".
C9_NotAvailableWithoutMarketCap ==
    ~HasMarketCap(stocks)
        => (mockMarketCapCard = NotAvailable /\ mockMarketCapCard # ZeroDollars)

\* the same of the card of the page on live data
PageCardNotAvailable ==
    ~HasMarketCap(stocks)
        => (marketCapCard = NotAvailable /\ marketCapCard # ZeroDollars)

----------------------------------------------------------------------------
(* Properties of the normalizer and of the batches it fills.                *)

Records == 1..Len(stocks)

\* C11: every record of the batch has a finite price: a payload whose latest
\* close is missing or is no number gives no record.
C11_FinitePrices ==
    \A i \in Records : IsFin(stocks[i].price)

\* C12: gainers + losers is at most the number of records, and equal to it
\* exactly when no record has a change of 0.
C12_GainersAndLosers ==
    /\ gainers + losers <= Len(stocks)
    /\ gainers + losers = Len(stocks)
          <=> (\A i \in Records : stocks[i].change # Fin(0))

\* C20: every record of the batch has a finite change and a finite
\* changePercent: a payload whose previous close is 0 gives no record.
C20_FiniteChanges ==
    \A i \in Records : IsFin(stocks[i].change) /\ IsFin(stocks[i].changePercent)

----------------------------------------------------------------------------
(* Properties of the display list.                                          *)

Rows == 1..Len(sortedStocks)

\* x <= y on numbers: false as soon as one side is NaN
NumLeq(x, y) == ~IsNaN(x) /\ ~IsNaN(y) /\ ~JsGt(x, y)

\* key(a) <= key(b) for the sort column `by`
KeyLeq(a, b, by) ==
    IF by = "symbol" THEN LocaleCompare(a.symbol, b.symbol) <= 0
    ELSE NumLeq(a[by], b[by])

\* where the record of `list` with this symbol stands in `list`
IndexOf(list, symbol) == CHOOSE i \in 1..Len(list) : list[i].symbol = symbol

IsPermutation(a, b) ==
    /\ Len(a) = Len(b)
    /\ \E f \in [1..Len(a) -> 1..Len(a)] :
          /\ \A i, j \in 1..Len(a) : i # j => f[i] # f[j]
          /\ \A i \in 1..Len(a) : a[i] = b[f[i]]

\* AAPL (change 2.15) and TSLA (change -8.75) of the mock data
TwoStocks == <<generateMockData[1], generateMockData[4]>>

\* C13: the display list holds the filtered records ordered by the sort
\* column: of two adjacent rows the upper has the smaller or equal key when
\* ascending, the greater or equal key when descending; AAPL and TSLA sorted
\* by change give TSLA, AAPL ascending and AAPL, TSLA descending.
C13_DisplayListOrdered ==
    /\ \A i \in Rows : \E j \in 1..Len(filteredStocks) :
          sortedStocks[i] = filteredStocks[j]
    /\ Len(sortedStocks) = Len(filteredStocks)
    /\ \A i \in Rows : i < Len(sortedStocks) =>
          IF sortOrder = "asc"
          THEN KeyLeq(sortedStocks[i], sortedStocks[i + 1], sortBy)
          ELSE KeyLeq(sortedStocks[i + 1], sortedStocks[i], sortBy)
    /\ SymbolsOf(SortStocks(TwoStocks, "change", "asc")) = <<TSLA, AAPL>>
    /\ SymbolsOf(SortStocks(TwoStocks, "change", "desc")) = <<AAPL, TSLA>>

ContainsIgnoringCase(text, term) ==
    \E k \in 0..Len(text) :
        /\ k + Len(term) <= Len(text)
        /\ \A j \in 1..Len(term) : LowerChar(text[k + j]) = LowerChar(term[j])

Matches(stock, term) ==
    ContainsIgnoringCase(stock.symbol, term) \/ ContainsIgnoringCase(stock.name, term)

\* C15: the filtered list holds, in batch order, exactly the records whose
\* symbol or name contains the search term as typed, letter case ignored;
\* the empty term keeps every record, and "apple" over AAPL and TSLA keeps
\* AAPL only.
C15_FilterIsSubsequence ==
    LET matching == {r \in Records : Matches(stocks[r], searchTerm)}
        nth(i) == CHOOSE r \in matching :
                      Cardinality({q \in matching : q < r}) = i - 1
    IN  /\ Len(filteredStocks) <= Len(stocks)
        /\ Len(filteredStocks) = Cardinality(matching)
        /\ \A i \in 1..Len(filteredStocks) : filteredStocks[i] = stocks[nth(i)]
        /\ searchTerm = <<>> => filteredStocks = stocks
        /\ FilterStocks(TwoStocks, <<"a","p","p","l","e">>) = <<TwoStocks[1]>>

\* six records loaded and the term "apple" typed: Apple Inc. alone is kept
C15_Witness ==
    /\ Len(stocks) = Len(STOCK_SYMBOLS)
    /\ searchTerm = <<"a","p","p","l","e">>
    /\ SymbolsOf(filteredStocks) = <<AAPL>>

----------------------------------------------------------------------------
(* Properties of the chart series and of overlapping cycles.                *)

\* where the symbol stands in STOCK_SYMBOLS
SymbolIndex(symbol) == CHOOSE i \in Symbols : STOCK_SYMBOLS[i] = symbol

\* the answer carries a series object
HasSeries(response) ==
    /\ ~response.rejects /\ response.ok
    /\ ~response.data.isNull /\ response.data.hasSeries

\* C16: the chart series built from a series that lists its entries newest
\* first holds the same points oldest first: the times strictly increase and
\* every point carries the close of its own entry.
C16_ChartOldestFirst ==
    [][\A c \in Cycles : \A responses \in LoadResponseArrays :
          LET answer == responses[SymbolIndex(inflight[c].selected)]
              series == answer.data.series
              n == Len(series)
          IN  (Resolve(c, ResultsOf(responses)) /\ HasSeries(answer))
                  => /\ Len(chartData') = n
                     /\ \A i, j \in 1..n :
                           i < j => chartData'[i].time < chartData'[j].time
                     /\ \A k \in 1..n :
                           chartData'[n + 1 - k]
                               = [time |-> series[k].time,
                                  price |-> ParseFloat(series[k].close)]]_vars

\* the series of three entries, charted: 10, 12, 14 at the times 1, 2, 3
C16_Witness ==
    chartData = <<[time |-> 1, price |-> Fin(10)], [time |-> 2, price |-> Fin(12)],
                  [time |-> 3, price |-> Fin(14)]>>

\* the records of the answers that give one, in STOCK_SYMBOLS order
BatchOf(responses) ==
    LET keep == SelectSeq([i \in Symbols |-> i],
                          LAMBDA i : i \notin AttemptFailed(responses))
    IN  [k \in 1..Len(keep) |->
            ParseStockData(STOCK_SYMBOLS[keep[k]], responses[keep[k]].data).rec]

\* the chart series of the answer for `symbol`, empty when there is none
ChartOf(responses, symbol) ==
    LET answer == responses[SymbolIndex(symbol)]
    IN  IF HasSeries(answer) /\ ChartArr(answer.data.series).tag = "ok"
        THEN ChartArr(answer.data.series).arr
        ELSE <<>>

\* C17: a refresh or a symbol change leaves the outstanding cycles running;
\* every cycle, when it resolves, writes the batch and the chart series of
\* its own answers, whether or not a cycle started later is outstanding or
\* has resolved before it.
C17_LastResolverWins ==
    [][/\ Len(inflight') > Len(inflight)
             => SubSeq(inflight', 1, Len(inflight)) = inflight
       /\ \A c \in Cycles : \A responses \in ResponseArrays :
             Resolve(c, ResultsOf(responses))
                 => /\ stocks' = BatchOf(responses)
                    /\ chartData' = ChartOf(responses, inflight[c].selected)]_vars

\* the same for every answer but the body null, which makes parseStockData
\* throw before the batch is written
LastResolverWinsButForNullBody ==
    [][\A c \in Cycles :
          \A responses \in ResponseArrays \ {ButFor(2, Json(JsonNull))} :
             Resolve(c, ResultsOf(responses))
                 => /\ stocks' = BatchOf(responses)
                    /\ chartData' = ChartOf(responses, inflight[c].selected)]_vars

\* the chart series a cycle can build for `symbol`
ChartsFor(symbol) ==
    {ChartOf(responses, symbol) : responses \in ResponseArrays} \ {<<>>}

\* C18: selectedSymbol is a tracked symbol, and when no cycle is outstanding
\* a chart series that is not empty is a series fetched for selectedSymbol.
C18_ChartOfSelectedSymbol ==
    /\ \E i \in Symbols : selectedSymbol = STOCK_SYMBOLS[i]
    /\ (inflight = <<>> /\ chartData # <<>>)
          => chartData \in ChartsFor(selectedSymbol)

InitialLoadOutstanding == \E c \in Cycles : inflight[c].initial

\* C19: when every pending fetch settles in the end, a cycle completes: the
\* initial load ends and the loading flag is cleared; and a cycle writes
\* nothing, does not clear the loading flag and does not end before the step
\* in which the last of its fetches settles, so a fetch that never settles
\* stalls its cycle for good.
C19_CompletesWhenAllSettle ==
    /\ InitialLoadOutstanding ~> ~InitialLoadOutstanding
    /\ loading ~> ~loading
    /\ [][/\ Len(inflight') < Len(inflight) => ~loading'
          /\ (\/ stocks' # stocks
              \/ chartData' # chartData
              \/ error' # error /\ error' # NULL
              \/ loading /\ ~loading'
              \/ Len(inflight') < Len(inflight))
                => \E c \in Cycles : /\ inflight[c].pending = 1
                                     /\ inflight' = RemoveAt(inflight, c)]_vars

\* the initial load has completed: six records, the loading flag cleared
C19_Witness ==
    /\ inflight = <<>>
    /\ ~loading
    /\ Len(stocks) = Len(STOCK_SYMBOLS)

\* the entries of a series whose close parses as a number, in a chart's
\* order: oldest first, every label with the close of its own entry
ParsablePoints(series) ==
    LET keep == SelectSeq(series, LAMBDA entry : IsFin(ParseFloat(entry.close)))
    IN  [k \in 1..Len(keep) |->
            [time |-> keep[Len(keep) + 1 - k].time,
             price |-> ParseFloat(keep[Len(keep) + 1 - k].close)]]

\* C21: the chart series a cycle builds holds exactly the entries of the
\* answer whose close parses as a number, and so no chart point ever carries
\* a price that is not a number.
C21_UnparsablePointsExcluded ==
    /\ \A i \in 1..Len(chartData) : IsFin(chartData[i].price)
    /\ [][\A c \in Cycles : \A responses \in LoadResponseArrays :
             LET answer == responses[SymbolIndex(inflight[c].selected)]
             IN  (Resolve(c, ResultsOf(responses)) /\ HasSeries(answer))
                     => chartData' = ParsablePoints(answer.data.series)]_vars

====
